---------------------------- MODULE Spec2Model ----------------------------
(***************************************************************************)
(* A model of src/magnetic_system.py: the class magnetic_system, which     *)
(* builds a regular sampling grid from calibration data, precomputes the   *)
(* finite-difference gradient tensors of the field tensor Bs, binds four   *)
(* scipy RegularGridInterpolator objects to the tensors, reorders the coil *)
(* axis (permutate_coils) and answers the queries getBact, getDerMatrices  *)
(* and getA.                                                               *)
(*                                                                         *)
(* Numbers.  Python floats are modelled as exact rationals <<n, d>> in     *)
(* lowest terms with d > 0.  Lengths are counted in micrometres: the model *)
(* stores 1e6*c for a coordinate c in metres, so that the source's         *)
(* 1e-6*round(1e6*c) is the integer PyRound of the stored number.          *)
(* A 5-dimensional float array is a record                                 *)
(* [shape |-> <<...>>, den |-> q, data |-> d]: its entry at                *)
(* (ix,iy,iz,c,k) is the rational d[ix][iy][iz][c][k] / q, indices 0-based *)
(* as numpy's; q is a common denominator of the entries.                   *)
(***************************************************************************)
EXTENDS Integers, Sequences, FiniteSets, TLC

(***************************************************************************)
(* Bounds of the model.                                                    *)
(***************************************************************************)
\* largest number of samples per axis of the field tensor
MaxN == 3
\* largest coil count
MaxNcoils == 7
\* largest size Nx*Ny*Nz*Ncoils of a calibration data set
MaxCells == 84
\* largest number of permutate_coils calls that complete in one behaviour
MaxCalls == 2
\* largest slope of a linear calibration field
MaxSlope == 2
\* largest number of permutate_coils calls that complete in a behaviour of
\* SpecQuery
MaxQueryCalls == 1

(***************************************************************************)
(* Constants of the program.                                               *)
(***************************************************************************)
\* range(0,6) of permutate_coils
CoilLoopLen == 6
\* Ncoils of the __main__ block
MainNcoils == 3
\* the field has three components; the grid has three axes
NComp == 3

(***************************************************************************)
(* Exact rational arithmetic, standing for float arithmetic.               *)
(***************************************************************************)
Abs(x) == IF x < 0 THEN -x ELSE x

RECURSIVE Gcd(_, _)
Gcd(a, b) == IF b = 0 THEN a ELSE Gcd(b, a % b)

\* n/d with the common factor g taken out and the sign in the numerator
Reduce(n, d, g) ==
    IF d < 0 THEN <<(-n) \div g, (-d) \div g>> ELSE <<n \div g, d \div g>>

\* the fraction n/d in lowest terms
Rat(n, d) == Reduce(n, d, Gcd(Abs(n), Abs(d)))

RInt(n) == <<n, 1>>
RAdd(a, b) == Rat(a[1] * b[2] + b[1] * a[2], a[2] * b[2])
RSub(a, b) == Rat(a[1] * b[2] - b[1] * a[2], a[2] * b[2])
RMul(a, b) == Rat(a[1] * b[1], a[2] * b[2])
\* float division; the model never divides by zero (a grid spacing is never 0)
RDiv(a, b) == Rat(a[1] * b[2], a[2] * b[1])
RLe(a, b) == a[1] * b[2] <= b[1] * a[2]
RLt(a, b) == a[1] * b[2] < b[1] * a[2]
\* equality of two fractions that need not be in lowest terms
REq(a, b) == a[1] * b[2] = b[1] * a[2]

\* Python's round() of the rational q: to the nearest integer, ties to even
PyRound(q) ==
    LET fl == q[1] \div q[2]
        r  == q[1] % q[2]
    IN  IF 2 * r < q[2] THEN fl
        ELSE IF 2 * r > q[2] THEN fl + 1
        ELSE IF fl % 2 = 0 THEN fl ELSE fl + 1


(***************************************************************************)
(* numpy arrays.                                                           *)
(***************************************************************************)
\* the index tuples of a 5-dimensional array of the given shape
Indices(shape) ==
    (0 .. shape[1] - 1) \X (0 .. shape[2] - 1) \X (0 .. shape[3] - 1)
        \X (0 .. shape[4] - 1) \X (0 .. shape[5] - 1)

\* the array of the given shape whose entry at index tuple i is f[i]/den
Array(shape, den, f) ==
    [shape |-> shape,
     den |-> den,
     data |-> [ix \in 0 .. shape[1] - 1 |-> [iy \in 0 .. shape[2] - 1 |->
                [iz \in 0 .. shape[3] - 1 |-> [c \in 0 .. shape[4] - 1 |->
                  [k \in 0 .. shape[5] - 1 |-> f[<<ix, iy, iz, c, k>>]]]]]]]

\* the numerator of B[i] over B.den, and B[i] itself as a fraction
Num(B, i) == B.data[i[1]][i[2]][i[3]][i[4]][i[5]]
At(B, i) == <<Num(B, i), B.den>>

\* list.sort() of a list without repetitions, given as the set of its elements
RECURSIVE SortedList(_)
SortedList(S) ==
    IF S = {} THEN <<>>
    ELSE LET m == CHOOSE x \in S : \A y \in S : x <= y
         IN  <<m>> \o SortedList(S \ {m})

\* a variant of extract_unique_vals_tol with math.floor in place of round
extract_unique_vals_floor(arr) == {arr[i][1] \div arr[i][2] : i \in DOMAIN arr}

(***************************************************************************)
(* magnetic_system.extract_unique_vals_tol: the distinct values of         *)
(* 1e-6*round(1e6*c) over the column arr (a sequence of stored numbers     *)
(* 1e6*c).  The list it returns has the arbitrary order of a Python set;   *)
(* every caller sorts it, so the set of values is what it yields.          *)
(***************************************************************************)
extract_unique_vals_tol(arr) == {PyRound(arr[i]) : i \in DOMAIN arr}

\* column j of the (N,3) array coordinates
Column(coords, j) == [i \in DOMAIN coords |-> coords[i][j]]

(***************************************************************************)
(* magnetic_system._compute_gradient_tensor: the three loop nests, each    *)
(* filling a fresh np.zeros(self.Bs.shape) from Bs and one grid spacing.   *)
(* An entry with nx==0 is (Bs[nx+1]-Bs[nx])/deltax, one with nx==Nx-1 is   *)
(* (Bs[nx]-Bs[nx-1])/deltax, any other is (Bs[nx+1]-Bs[nx-1])/deltax.      *)
(* With Bs over the denominator q, the quotients are the differences of    *)
(* the numerators over q*deltax.                                           *)
(***************************************************************************)
\* a variant of ComputeBx that gives the two-sided difference the spacing of
\* its two steps, 2*deltax
ComputeBxCentral(B, deltax) ==
    LET Nx == B.shape[1]
        at(nx, i) == Num(B, <<nx, i[2], i[3], i[4], i[5]>>)
        entry ==
            [i \in Indices(B.shape) |->
                LET nx == i[1]
                IN  IF nx = 0 THEN 2 * (at(nx + 1, i) - at(nx, i))
                    ELSE IF nx = Nx - 1 THEN 2 * (at(nx, i) - at(nx - 1, i))
                    ELSE at(nx + 1, i) - at(nx - 1, i)]
    IN  Array(B.shape, B.den * 2 * deltax, entry)

ComputeBx(B, deltax) ==
    LET Nx == B.shape[1]
        at(nx, i) == Num(B, <<nx, i[2], i[3], i[4], i[5]>>)
        entry ==
            [i \in Indices(B.shape) |->
                LET nx == i[1]
                IN  IF nx = 0 THEN at(nx + 1, i) - at(nx, i)
                    ELSE IF nx = Nx - 1 THEN at(nx, i) - at(nx - 1, i)
                    ELSE at(nx + 1, i) - at(nx - 1, i)]
    IN  Array(B.shape, B.den * deltax, entry)

ComputeBy(B, deltay) ==
    LET Ny == B.shape[2]
        at(ny, i) == Num(B, <<i[1], ny, i[3], i[4], i[5]>>)
        entry ==
            [i \in Indices(B.shape) |->
                LET ny == i[2]
                IN  IF ny = 0 THEN at(ny + 1, i) - at(ny, i)
                    ELSE IF ny = Ny - 1 THEN at(ny, i) - at(ny - 1, i)
                    ELSE at(ny + 1, i) - at(ny - 1, i)]
    IN  Array(B.shape, B.den * deltay, entry)

ComputeBz(B, deltaz) ==
    LET Nz == B.shape[3]
        at(nz, i) == Num(B, <<i[1], i[2], nz, i[4], i[5]>>)
        entry ==
            [i \in Indices(B.shape) |->
                LET nz == i[3]
                IN  IF nz = 0 THEN at(nz + 1, i) - at(nz, i)
                    ELSE IF nz = Nz - 1 THEN at(nz, i) - at(nz - 1, i)
                    ELSE at(nz + 1, i) - at(nz - 1, i)]
    IN  Array(B.shape, B.den * deltaz, entry)

(***************************************************************************)
(* scipy.interpolate.RegularGridInterpolator, as the source uses it:       *)
(* method "linear", bounds_error True.  The object keeps a reference to    *)
(* the grid and to the values array it was given.                          *)
(***************************************************************************)
\* the constructor's check: one axis per leading dimension, of that length
GridFits(grid, values) ==
    \A a \in 1 .. 3 : Len(grid[a]) = values.shape[a]

RegularGridInterpolator(grid, values) == [grid |-> grid, values |-> values]

\* the bounds check of __call__: grid[i][0] <= p <= grid[i][-1] on every axis
InBounds(grid, pos) ==
    \A a \in 1 .. 3 :
        /\ RLe(RInt(grid[a][1]), pos[a])
        /\ RLe(pos[a], RInt(grid[a][Len(grid[a])]))

\* the cell index on one axis: searchsorted(axis, x) - 1 clipped to [0, n-2],
\* 0-based
Clip(i, lo, hi) == IF i < lo THEN lo ELSE IF i > hi THEN hi ELSE i

FindIndex(axis, x) ==
    Clip(Cardinality({j \in DOMAIN axis : RLt(RInt(axis[j]), x)}) - 1,
         0, Len(axis) - 2)

\* the normalised distance of x into the cell i of its axis:
\* (x - axis[i]) / (axis[i+1] - axis[i])
NormDist(axis, x, i) ==
    Rat(x[1] - axis[i + 1] * x[2], (axis[i + 2] - axis[i + 1]) * x[2])

\* the eight corners of a cell, as offsets from its first node
Corners == {0, 1} \X {0, 1} \X {0, 1}

\* the weight of the corner e of a cell: the product over the axes of the
\* distance (far node, e[a] = 1) or one minus the distance (near node), as
\* a numerator over the product of the denominators of dist
Part(d, far) == IF far = 1 THEN d[1] ELSE d[2] - d[1]
Weight(dist, e) == Part(dist[1], e[1]) * Part(dist[2], e[2]) * Part(dist[3], e[3])

\* weight * value of the corner e, for the entry (c, k)
Term(values, cell, dist, e, c, k) ==
    Weight(dist, e)
        * Num(values, <<cell[1] + e[1], cell[2] + e[2], cell[3] + e[3], c, k>>)

\* _evaluate_linear: the value of entry (c, k) is the sum over the eight
\* corners of the cell of weight * value
EvaluateLinear(values, cell, dist) ==
    [c \in 0 .. NComp - 1 |->
        [k \in 0 .. values.shape[5] - 1 |->
            Rat(Term(values, cell, dist, <<0, 0, 0>>, c, k)
                    + Term(values, cell, dist, <<0, 0, 1>>, c, k)
                    + Term(values, cell, dist, <<0, 1, 0>>, c, k)
                    + Term(values, cell, dist, <<0, 1, 1>>, c, k)
                    + Term(values, cell, dist, <<1, 0, 0>>, c, k)
                    + Term(values, cell, dist, <<1, 0, 1>>, c, k)
                    + Term(values, cell, dist, <<1, 1, 0>>, c, k)
                    + Term(values, cell, dist, <<1, 1, 1>>, c, k),
                dist[1][2] * dist[2][2] * dist[3][2] * values.den)]]

\* the distances of pos into the cell it lies in
Distances(g, pos, cell) ==
    <<NormDist(g[1], pos[1], cell[1]), NormDist(g[2], pos[2], cell[2]),
      NormDist(g[3], pos[3], cell[3])>>

InCell(interp, pos, cell) ==
    EvaluateLinear(interp.values, cell, Distances(interp.grid, pos, cell))

\* the interpolated (3,Ncoils) matrix at pos: the cell of pos and the
\* distances into it are found once, then every entry is evaluated
Interpolate(interp, pos) ==
    InCell(interp, pos,
           <<FindIndex(interp.grid[1], pos[1]), FindIndex(interp.grid[2], pos[2]),
             FindIndex(interp.grid[3], pos[3])>>)

(***************************************************************************)
(* The state.                                                              *)
(*   args   the constructor's arguments once the calibration file is read  *)
(*          (lines 25-28): the field tensor Bs, the (N,3) array            *)
(*          coordinates, posunit and Ncoils                                *)
(*   pc     "new" before __init__ ran, "failed" when it raised (no object  *)
(*          exists then), "returned" while the caller holds the outcome of *)
(*          a call, "ready" between calls                                  *)
(*   self   the attributes of the magnetic_system object                   *)
(*   call   the last method call: its name and its arguments               *)
(*   err    the exception the last call raised, "none" when it returned    *)
(*   ret    what the last call returned                                    *)
(*   ncalls the number of permutate_coils calls that returned              *)
(*   pre    history of the last permutate_coils call that returned: the    *)
(*          coil order it was given and self as it was when it was made    *)
(***************************************************************************)
VARIABLES args, pc, self, call, err, ret, ncalls, pre

vars == <<args, pc, self, call, err, ret, ncalls, pre>>

NoArray == [shape |-> <<>>, den |-> 1, data |-> <<>>]
NoInterp == [grid |-> <<>>, values |-> NoArray]
NoSelf ==
    [Bs |-> NoArray, coordinates |-> <<>>, Ncoils |-> 0,
     xcoords |-> <<>>, deltax |-> 0, xmin |-> 0, xmax |-> 0,
     ycoords |-> <<>>, deltay |-> 0, ymin |-> 0, ymax |-> 0,
     zcoords |-> <<>>, deltaz |-> 0, zmin |-> 0, zmax |-> 0,
     BactInterpolator |-> NoInterp,
     Bx |-> NoArray, By |-> NoArray, Bz |-> NoArray,
     BxInterpolator |-> NoInterp, ByInterpolator |-> NoInterp,
     BzInterpolator |-> NoInterp]
NoCall == [op |-> "none", pos |-> <<>>, kind |-> "none", m |-> <<>>, coilvec |-> <<>>]
NoRet == [shape |-> <<>>, data |-> <<>>]
NoPre == [coilvec |-> <<>>, self |-> NoSelf]

(***************************************************************************)
(* The calibration data sets the model draws.  A data set samples a field  *)
(* on a regular grid: per axis, n nodes at origin, origin+step, ...        *)
(* (micrometres).  A layout fixes step, origin and the unit the file       *)
(* gives positions in.                                                     *)
(***************************************************************************)
Layouts ==
    {[step |-> 2, origin |-> 0, posunit |-> "m"],
     [step |-> 3, origin |-> -3, posunit |-> "mm"]}

\* the samples of one axis, in micrometres, as the file lists them.
\*   "plain"   the n nodes, ascending
\*   "jitter"  the n nodes, descending, and a sample half a micrometre
\*             above the first node
AxisSample(n, lay, mode) ==
    IF mode = "plain"
    THEN [i \in 1 .. n |-> RInt(lay.origin + (i - 1) * lay.step)]
    ELSE [i \in 1 .. n |-> RInt(lay.origin + (n - i) * lay.step)]
             \o <<Rat(2 * lay.origin + 1, 2)>>

\* a position in the file's unit, stored as 1e6 * the number in the file
InFileUnit(x, lay) == IF lay.posunit = "mm" THEN RMul(x, RInt(1000)) ELSE x

\* the (N,3) array of sampled positions: every triple of axis samples
Coordinates(sx, sy, sz, lay) ==
    LET nx == Len(sx)
        ny == Len(sy)
        nz == Len(sz)
    IN  [n \in 1 .. nx * ny * nz |->
            <<InFileUnit(sx[((n - 1) % nx) + 1], lay),
              InFileUnit(sy[(((n - 1) \div nx) % ny) + 1], lay),
              InFileUnit(sz[((n - 1) \div (nx * ny)) + 1], lay)>>]

\* a field that differs from coil to coil and is not linear along any axis
GenericField(shape) ==
    Array(shape, 1,
          [i \in Indices(shape) |->
              (i[5] + 1) * (1 + i[1] * i[1] + 2 * i[2] * i[3] + 3 * i[3])
                  + i[4] * (i[1] + i[2] * i[2]) + 5 * i[4] * i[5]])

\* the field B = k*x (d = 1), k*y (d = 2) or k*z (d = 3) with k = slope*(coil+1),
\* sampled at the nodes of the layout
LinearField(shape, lay, d, slope) ==
    Array(shape, 1,
          [i \in Indices(shape) |->
              slope * (i[5] + 1) * (lay.origin + i[d] * lay.step)])

\* the fields sampled on a grid: the linear ones on plainly sampled grids
Fields(shape, lay, dev) ==
    {GenericField(shape)}
        \cup IF dev.axis = 0
             THEN {LinearField(shape, lay, d, s) : d \in 1 .. 3, s \in 1 .. MaxSlope}
             ELSE {}

\* how the samples of the axes relate to the tensor's dimensions dims: on
\* every axis as many nodes as the dimension, except that on axis dev.axis
\* there are dev.off more, and the axis is listed in mode dev.mode
Deviations ==
    {[axis |-> 0, off |-> 0, mode |-> "plain"]}
        \cup [axis : 1 .. 3, off : {-1, 0, 1}, mode : {"plain", "jitter"}]

Samples(dims, lay, dev) ==
    [a \in 1 .. 3 |->
        IF a = dev.axis THEN AxisSample(dims[a] + dev.off, lay, dev.mode)
        ELSE AxisSample(dims[a], lay, "plain")]

Sampled(s, nc, lay, field) ==
    [Bs |-> field,
     coordinates |-> Coordinates(s[1], s[2], s[3], lay),
     posunit |-> lay.posunit,
     Ncoils |-> nc]

DataSet(dims, nc, lay, dev, field) == Sampled(Samples(dims, lay, dev), nc, lay, field)

TensorShape(d, nc) == <<d[1], d[2], d[3], NComp, nc>>

DimsFor(nc) ==
    {d \in (1 .. MaxN) \X (1 .. MaxN) \X (1 .. MaxN) :
        d[1] * d[2] * d[3] * nc <= MaxCells}

\* the data sets of the three-coil system of __main__: every grid, every
\* sampling, every field
GridFamily ==
    UNION {{DataSet(d, MainNcoils, lay, dev, f) :
                f \in Fields(TensorShape(d, MainNcoils), lay, dev)} :
            d \in DimsFor(MainNcoils), lay \in Layouts, dev \in Deviations}

\* the data sets of the systems of six coils and more (the docstring of
\* permutate_coils has six): plainly sampled, with the generic field
CoilFamily ==
    UNION {{DataSet(d, nc, lay, [axis |-> 0, off |-> 0, mode |-> "plain"],
                    GenericField(TensorShape(d, nc))) :
                d \in DimsFor(nc), lay \in Layouts} :
            nc \in CoilLoopLen .. MaxNcoils}

(***************************************************************************)
(* magnetic_system.__init__, lines 29-53, on the data a reader returned.   *)
(* Yields the exception raised, or the attributes of the new object.       *)
(***************************************************************************)
\* lines 29-30: positions given in millimetres become metres
ScaledCoordinates(a) ==
    IF a.posunit = "mm"
    THEN [i \in DOMAIN a.coordinates |->
            [j \in 1 .. 3 |-> RMul(a.coordinates[i][j], Rat(1, 1000))]]
    ELSE a.coordinates

\* lines 33-35 (and 38-40, 43-45): one axis, de-duplicated and sorted
Axis(coordinates, j) == SortedList(extract_unique_vals_tol(Column(coordinates, j)))

\* lines 48-53, with the six attributes of lines 36-37, 41-42, 46-47
\* already computed
init_tensors(a, coordinates, grid, deltax, deltay, deltaz, Bx, By, Bz) ==
    [Bs |-> a.Bs, coordinates |-> coordinates, Ncoils |-> a.Ncoils,
     xcoords |-> grid[1], deltax |-> deltax,
     xmin |-> grid[1][1], xmax |-> grid[1][Len(grid[1])],
     ycoords |-> grid[2], deltay |-> deltay,
     ymin |-> grid[2][1], ymax |-> grid[2][Len(grid[2])],
     zcoords |-> grid[3], deltaz |-> deltaz,
     zmin |-> grid[3][1], zmax |-> grid[3][Len(grid[3])],
     BactInterpolator |-> RegularGridInterpolator(grid, a.Bs),
     Bx |-> Bx, By |-> By, Bz |-> Bz,
     BxInterpolator |-> RegularGridInterpolator(grid, Bx),
     ByInterpolator |-> RegularGridInterpolator(grid, By),
     BzInterpolator |-> RegularGridInterpolator(grid, Bz)]

\* lines 36-53 on a grid whose axes have two nodes or more
init_spacing(a, coordinates, grid, deltax, deltay, deltaz) ==
    init_tensors(a, coordinates, grid, deltax, deltay, deltaz,
                 ComputeBx(a.Bs, deltax), ComputeBy(a.Bs, deltay),
                 ComputeBz(a.Bs, deltaz))

init_grid(a, coordinates, grid) ==
    IF Len(grid[1]) < 2 \/ Len(grid[2]) < 2 \/ Len(grid[3]) < 2
    THEN \* xcoords[1], ycoords[1] or zcoords[1] does not exist (lines 36-46)
         [err |-> "IndexError", self |-> NoSelf]
    ELSE IF ~GridFits(grid, a.Bs)
    THEN \* RegularGridInterpolator rejects the values (line 48)
         [err |-> "ValueError", self |-> NoSelf]
    ELSE [err |-> "none",
          self |-> init_spacing(a, coordinates, grid, grid[1][2] - grid[1][1],
                                grid[2][2] - grid[2][1], grid[3][2] - grid[3][1])]

init_axes(a, coordinates) ==
    init_grid(a, coordinates,
              <<Axis(coordinates, 1), Axis(coordinates, 2), Axis(coordinates, 3)>>)

magnetic_system_init(a) == init_axes(a, ScaledCoordinates(a))

(***************************************************************************)
(* magnetic_system.permutate_coils.  The loop runs idx over range(0,6); in *)
(* each pass Python evaluates self.Bs[:,:,:,:,coilvec[idx]] and then       *)
(* stores it to Bs_temp[:,:,:,:,idx].  An index past the end of coilvec or *)
(* of the coil axis raises IndexError, a negative index counts from the    *)
(* end.  Until the loop is over only the local copy Bs_temp has changed.   *)
(***************************************************************************)
RECURSIVE PermuteLoop(_, _, _, _)
PermuteLoop(idx, Bs_temp, B, coilvec) ==
    LET nc == B.shape[5]
    IN  IF idx = CoilLoopLen THEN [err |-> "none", Bs |-> Bs_temp]
        ELSE IF idx >= Len(coilvec) THEN [err |-> "IndexError", Bs |-> B]
        ELSE LET v == coilvec[idx + 1]
                 from == IF v < 0 THEN v + nc ELSE v
             IN  IF from < 0 \/ from >= nc \/ idx >= nc
                 THEN [err |-> "IndexError", Bs |-> B]
                 ELSE PermuteLoop(idx + 1,
                                  Array(B.shape, B.den,
                                        [i \in Indices(B.shape) |->
                                            IF i[5] = idx
                                            THEN Num(B, <<i[1], i[2], i[3], i[4], from>>)
                                            ELSE Num(Bs_temp, i)]),
                                  B, coilvec)

\* a variant of permutate_update without the call of line 98
permutate_update_stale(s, Bs_temp) ==
    [s EXCEPT
        !.Bs = Bs_temp,
        !.BactInterpolator =
            RegularGridInterpolator(<<s.xcoords, s.ycoords, s.zcoords>>, Bs_temp)]

\* lines 95-98: what the call leaves in self once the loop is over
permutate_update(s, Bs_temp) ==
    [s EXCEPT
        !.Bs = Bs_temp,
        !.BactInterpolator =
            RegularGridInterpolator(<<s.xcoords, s.ycoords, s.zcoords>>, Bs_temp),
        !.Bx = ComputeBx(Bs_temp, s.deltax),
        !.By = ComputeBy(Bs_temp, s.deltay),
        !.Bz = ComputeBz(Bs_temp, s.deltaz)]

\* the call's outcome, r being the outcome of its loop
permutate_outcome(s, r) ==
    IF r.err # "none" THEN [err |-> r.err, self |-> s]
    ELSE [err |-> "none", self |-> permutate_update(s, r.Bs)]

permutate_coils(s, coilvec) ==
    permutate_outcome(s, PermuteLoop(0, s.Bs, s.Bs, coilvec))

\* the coil orders a caller passes to a system of nc coils
Identity(nc) == [k \in 1 .. nc |-> k - 1]
CoilOrders(nc) ==
    {\* the docstring's example: coils 0 and 2 of six exchanged
     <<2, 1, 0, 3, 4, 5>>,
     \* the two rotations of all nc coils, inverse to one another
     [k \in 1 .. nc |-> k % nc],
     [k \in 1 .. nc |-> (k + nc - 2) % nc],
     \* coil 0 twice, coil 1 missing
     [Identity(nc) EXCEPT ![2] = 0],
     \* an index that is no coil
     [Identity(nc) EXCEPT ![1] = nc],
     \* one entry too few, one too many
     SubSeq(Identity(nc), 1, nc - 1),
     Identity(nc) \o <<0>>}

(***************************************************************************)
(* The queries.  A position reaches RegularGridInterpolator.__call__       *)
(* either as a tuple of three numbers, as in __main__, or as a list or     *)
(* ndarray of three numbers, as the docstrings have it.  scipy makes the   *)
(* tuple one point of shape (3,) and returns values.shape[3:], here        *)
(* (3,Ncoils); it reshapes the list or ndarray to (1,3), one row of        *)
(* points, and returns (1,3,Ncoils).  A point off the grid raises          *)
(* ValueError (bounds_error is True).                                      *)
(***************************************************************************)
OutOfBounds == "ValueError: out of bounds"

\* what __call__ returns for the interpolated matrix mat
Shaped(mat, nc, kind) ==
    IF kind = "tuple"
    THEN [shape |-> <<NComp, nc>>, data |-> mat]
    ELSE [shape |-> <<1, NComp, nc>>, data |-> [b \in {0} |-> mat]]

\* a variant of InterpolatorCall for an interpolator built with
\* bounds_error=False and fill_value=None: it extrapolates
InterpolatorCallExtrapolating(interp, pos, kind) ==
    [err |-> "none",
     val |-> Shaped(Interpolate(interp, pos), interp.values.shape[5], kind)]

InterpolatorCall(interp, pos, kind) ==
    IF ~InBounds(interp.grid, pos) THEN [err |-> OutOfBounds, val |-> NoRet]
    ELSE [err |-> "none",
          val |-> Shaped(Interpolate(interp, pos), interp.values.shape[5], kind)]

\* magnetic_system.getBact
getBact(s, pos, kind) == InterpolatorCall(s.BactInterpolator, pos, kind)

\* the tuple of line 109: the first of the three calls that raises ends the
\* evaluation
DerTuple(dx, dy, dz) ==
    IF dx.err # "none" THEN dx
    ELSE IF dy.err # "none" THEN dy
    ELSE IF dz.err # "none" THEN dz
    ELSE [err |-> "none", val |-> <<dx.val, dy.val, dz.val>>]

\* magnetic_system.getDerMatrices: the three calls, in the tuple's order
getDerMatrices(s, pos, kind) ==
    DerTuple(InterpolatorCall(s.BxInterpolator, pos, kind),
             InterpolatorCall(s.ByInterpolator, pos, kind),
             InterpolatorCall(s.BzInterpolator, pos, kind))

\* sum over c of m[c] * row[c][k]
Contract(m, rows, k) ==
    RAdd(RMul(m[1], rows[0][k]), RAdd(RMul(m[2], rows[1][k]), RMul(m[3], rows[2][k])))

\* numpy's m.dot(M) for m of shape (3,): the sum over the last axis of m and
\* the second-to-last axis of M
Dot(m, M) ==
    IF Len(M.shape) = 2
    THEN [shape |-> <<M.shape[2]>>,
          data |-> [k \in 0 .. M.shape[2] - 1 |-> Contract(m, M.data, k)]]
    ELSE [shape |-> <<1, M.shape[3]>>,
          data |-> [b \in {0} |->
                      [k \in 0 .. M.shape[3] - 1 |-> Contract(m, M.data[0], k)]]]

\* np.atleast_2d
AtLeast2d(A) ==
    IF Len(A.shape) = 1
    THEN [shape |-> <<1>> \o A.shape, data |-> [b \in {0} |-> A.data]]
    ELSE A

\* the rows of a 2-dimensional array, as a sequence
Rows(A) == [r \in 1 .. A.shape[1] |-> A.data[r - 1]]

\* the 2-dimensional array of the given rows
FromRows(rows, tail) ==
    [shape |-> <<Len(rows)>> \o tail, data |-> [r \in 0 .. Len(rows) - 1 |-> rows[r + 1]]]

\* np.concatenate along axis 0, which wants the same number of dimensions
\* and the same trailing shape
Concatenate(A1, A2, A3, A4) ==
    IF \/ Len(A2.shape) # Len(A1.shape) \/ Tail(A2.shape) # Tail(A1.shape)
       \/ Len(A3.shape) # Len(A1.shape) \/ Tail(A3.shape) # Tail(A1.shape)
       \/ Len(A4.shape) # Len(A1.shape) \/ Tail(A4.shape) # Tail(A1.shape)
    THEN [err |-> "ValueError: dimensions", val |-> NoRet]
    ELSE [err |-> "none",
          val |-> FromRows(Rows(A1) \o Rows(A2) \o Rows(A3) \o Rows(A4), Tail(A1.shape))]

\* np.vstack of four arrays: atleast_2d of each, then concatenate
VStack(A1, A2, A3, A4) ==
    Concatenate(AtLeast2d(A1), AtLeast2d(A2), AtLeast2d(A3), AtLeast2d(A4))

\* lines 113-123, der and Bact being the outcomes of lines 113 and 114
getA_stack(m, der, Bact) ==
    IF der.err # "none" THEN der
    ELSE IF Bact.err # "none" THEN Bact
    ELSE VStack(Bact.val, Dot(m, der.val[1]), Dot(m, der.val[2]), Dot(m, der.val[3]))

\* magnetic_system.getA
getA(s, pos, kind, m) ==
    getA_stack(m, getDerMatrices(s, pos, kind), getBact(s, pos, kind))

\* the positions a caller queries: per axis, a micrometre below the grid,
\* its first node, half a micrometre into the first cell, three quarters
\* of a micrometre before the last node, the last node, half a micrometre
\* beyond it
AxisPoints(axis) ==
    LET lo == axis[1]
        hi == axis[Len(axis)]
    IN  <<RInt(lo - 1), RInt(lo), Rat(2 * lo + 1, 2), Rat(4 * hi - 3, 4), RInt(hi),
          Rat(2 * hi + 1, 2)>>

PointChoices ==
    {<<2, 2, 2>>, <<3, 4, 5>>, <<5, 5, 5>>, <<1, 3, 3>>, <<3, 6, 3>>, <<4, 4, 1>>}

Positions(s) ==
    {<<AxisPoints(s.xcoords)[t[1]], AxisPoints(s.ycoords)[t[2]],
       AxisPoints(s.zcoords)[t[3]]>> : t \in PointChoices}
        \cup {<<RInt(0), RInt(0), RInt(0)>>}

PosKinds == {"tuple", "ndarray"}

\* the dipole moments a caller passes
Moments == {<<RInt(1), RInt(0), RInt(0)>>, <<RInt(1), RInt(-2), Rat(3, 2)>>}

Init ==
    /\ args \in GridFamily \cup CoilFamily
    /\ pc = "new"
    /\ self = NoSelf
    /\ call = NoCall
    /\ err = "none"
    /\ ret = NoRet
    /\ ncalls = 0
    /\ pre = NoPre

\* system = magnetic_system(...)
Construct ==
    /\ pc = "new"
    /\ \E r \in {magnetic_system_init(args)} :
          /\ pc' = IF r.err = "none" THEN "returned" ELSE "failed"
          /\ self' = r.self
          /\ err' = r.err
    /\ call' = [NoCall EXCEPT !.op = "__init__"]
    /\ UNCHANGED <<args, ret, ncalls, pre>>

\* system.permutate_coils(coilvec)
PermutateCoils ==
    /\ pc = "ready"
    /\ ncalls < MaxCalls
    /\ \E coilvec \in CoilOrders(self.Ncoils) :
          \E r \in {permutate_coils(self, coilvec)} :
              /\ self' = r.self
              /\ err' = r.err
              /\ call' = [NoCall EXCEPT !.op = "permutate_coils", !.coilvec = coilvec]
              /\ ncalls' = IF r.err = "none" THEN ncalls + 1 ELSE ncalls
              /\ pre' = IF r.err = "none" THEN [coilvec |-> coilvec, self |-> self]
                        ELSE pre
    /\ pc' = "returned"
    /\ ret' = NoRet
    /\ UNCHANGED args

\* system.getBact(pos)
GetBact ==
    /\ pc = "ready"
    /\ \E pos \in Positions(self), kind \in PosKinds :
          \E r \in {getBact(self, pos, kind)} :
              /\ err' = r.err
              /\ ret' = r.val
              /\ call' = [NoCall EXCEPT !.op = "getBact", !.pos = pos, !.kind = kind]
    /\ pc' = "returned"
    /\ UNCHANGED <<args, self, ncalls, pre>>

\* system.getDerMatrices(pos)
GetDerMatrices ==
    /\ pc = "ready"
    /\ \E pos \in Positions(self), kind \in PosKinds :
          \E r \in {getDerMatrices(self, pos, kind)} :
              /\ err' = r.err
              /\ ret' = r.val
              /\ call' = [NoCall EXCEPT !.op = "getDerMatrices", !.pos = pos,
                                        !.kind = kind]
    /\ pc' = "returned"
    /\ UNCHANGED <<args, self, ncalls, pre>>

\* system.getA(pos, m)
GetA ==
    /\ pc = "ready"
    /\ \E pos \in Positions(self), kind \in PosKinds, m \in Moments :
          \E r \in {getA(self, pos, kind, m)} :
              /\ err' = r.err
              /\ ret' = r.val
              /\ call' = [NoCall EXCEPT !.op = "getA", !.pos = pos, !.kind = kind,
                                        !.m = m]
    /\ pc' = "returned"
    /\ UNCHANGED <<args, self, ncalls, pre>>

\* the caller takes what the call returned, or handles what it raised
Return ==
    /\ pc = "returned"
    /\ pc' = "ready"
    /\ call' = NoCall
    /\ err' = "none"
    /\ ret' = NoRet
    /\ UNCHANGED <<args, self, ncalls, pre>>

(***************************************************************************)
(* The specifications.  Spec: construction and any sequence of coil        *)
(* permutations.  SpecQuery: construction, at most MaxQueryCalls coil      *)
(* permutations, and any sequence of queries, on the plainly sampled data  *)
(* sets with the generic field whose grid has Nx <= Ny <= Nz.              *)
(***************************************************************************)
Next == Construct \/ PermutateCoils \/ Return

Spec == Init /\ [][Next]_vars

QueryFamily ==
    UNION {{DataSet(d, nc, lay, [axis |-> 0, off |-> 0, mode |-> "plain"],
                    GenericField(TensorShape(d, nc))) :
                d \in {t \in DimsFor(nc) : t[1] <= t[2] /\ t[2] <= t[3]},
                lay \in Layouts} :
            nc \in {MainNcoils} \cup (CoilLoopLen .. MaxNcoils)}

InitQuery ==
    /\ args \in QueryFamily
    /\ pc = "new"
    /\ self = NoSelf
    /\ call = NoCall
    /\ err = "none"
    /\ ret = NoRet
    /\ ncalls = 0
    /\ pre = NoPre

PermutateOnce == ncalls < MaxQueryCalls /\ PermutateCoils

NextQuery ==
    Construct \/ PermutateOnce \/ GetBact \/ GetDerMatrices \/ GetA \/ Return

SpecQuery == InitQuery /\ [][NextQuery]_vars

(***************************************************************************)
(* Properties.                                                             *)
(***************************************************************************)
\* a magnetic_system object exists
Built == pc \in {"ready", "returned"}

\* the index tuple i moved to index n along direction d
Moved(i, d, n) == [i EXCEPT ![d] = n]

\* the grid spacing of direction d
Delta(d) == IF d = 1 THEN self.deltax ELSE IF d = 2 THEN self.deltay ELSE self.deltaz

\* the stored derivative tensor of direction d
Der(s, d) == IF d = 1 THEN s.Bx ELSE IF d = 2 THEN s.By ELSE s.Bz

\* (B[hi] - B[lo]) / delta along direction d, at the node, component and
\* coil of i
Quotient(B, i, d, hi, lo, delta) ==
    <<Num(B, Moved(i, d, hi)) - Num(B, Moved(i, d, lo)), B.den * delta>>

\* the entry the three cases give for the index tuple i along direction d
CaseEntry(B, i, d, delta) ==
    IF i[d] = 0 THEN Quotient(B, i, d, 1, 0, delta)
    ELSE IF i[d] = B.shape[d] - 1
    THEN Quotient(B, i, d, B.shape[d] - 1, B.shape[d] - 2, delta)
    ELSE Quotient(B, i, d, i[d] + 1, i[d] - 1, delta)

Min(a, b) == IF a < b THEN a ELSE b
Max(a, b) == IF a > b THEN a ELSE b

\* the finite-difference gradient of B along d: the difference between the
\* neighbours of a node, the node standing for a neighbour the grid lacks,
\* over the spacing
Gradient(B, i, d, delta) ==
    Quotient(B, i, d, Min(i[d] + 1, B.shape[d] - 1), Max(i[d] - 1, 0), delta)

\* C9: in every state reached by construction and any sequence of
\* permutate_coils calls, Bx, By and Bz have the shape of Bs and equal the
\* finite-difference gradient of the current Bs along their direction.
C9_GradientCurrent ==
    Built =>
        \A d \in 1 .. 3 :
            /\ Der(self, d).shape = self.Bs.shape
            /\ \A i \in Indices(self.Bs.shape) :
                  REq(At(Der(self, d), i), Gradient(self.Bs, i, d, Delta(d)))

\* a permutation has returned and has changed both Bs and its gradient
C9_Witness ==
    /\ Built
    /\ ncalls > 0
    /\ self.Bs # pre.self.Bs
    /\ self.Bx # pre.self.Bx

\* the de-duplicated axis a of the data set: the distinct positions, in
\* metres, to the micrometre
DistinctOnAxis(a) ==
    {PyRound(IF args.posunit = "mm"
             THEN RMul(args.coordinates[n][a], Rat(1, 1000))
             ELSE args.coordinates[n][a]) : n \in DOMAIN args.coordinates}

Inconsistent ==
    \E a \in 1 .. 3 :
        \/ Cardinality(DistinctOnAxis(a)) < 2
        \/ Cardinality(DistinctOnAxis(a)) # args.Bs.shape[a]

StrictlyIncreasing(axis) == \A j \in 1 .. Len(axis) - 1 : axis[j] < axis[j + 1]

\* C10: the constructor raises, and no object exists, whenever a
\* de-duplicated axis has fewer than 2 values or a length other than the
\* tensor's dimension; otherwise every axis of the object is strictly
\* increasing, has 2 nodes or more and the length of the tensor's dimension.
C10_Construct ==
    pc # "new" =>
        IF Inconsistent
        THEN pc = "failed" /\ err \in {"IndexError", "ValueError"} /\ self = NoSelf
        ELSE /\ Built
             /\ \A a \in 1 .. 3 :
                   LET axis == <<self.xcoords, self.ycoords, self.zcoords>>[a]
                   IN  /\ Len(axis) >= 2
                       /\ StrictlyIncreasing(axis)
                       /\ Len(axis) = self.Bs.shape[a]
                       /\ {axis[j] : j \in 1 .. Len(axis)} = DistinctOnAxis(a)

\* the constructor has raised on a data set whose axes all have two values
\* or more, one of them not as many as the tensor's dimension
C10_Witness ==
    /\ pc = "failed"
    /\ err = "ValueError"
    /\ \A a \in 1 .. 3 : Cardinality(DistinctOnAxis(a)) >= 2

\* the position p has a coordinate outside [xmin,xmax]x[ymin,ymax]x[zmin,zmax]
Outside(p) ==
    \/ RLt(p[1], RInt(self.xmin)) \/ RLt(RInt(self.xmax), p[1])
    \/ RLt(p[2], RInt(self.ymin)) \/ RLt(RInt(self.ymax), p[2])
    \/ RLt(p[3], RInt(self.zmin)) \/ RLt(RInt(self.zmax), p[3])

Queries == {"getBact", "getDerMatrices", "getA"}

\* C6: getBact, getDerMatrices and getA at a position with a coordinate
\* outside the grid raise the out-of-bounds error, return nothing, and
\* leave the object as it was.
C6_OutOfBounds ==
    [][(pc = "ready" /\ pc' = "returned" /\ call'.op \in Queries /\ Outside(call'.pos))
          => (err' = OutOfBounds /\ ret' = NoRet /\ self' = self)]_vars

\* getA has been asked for a position half a micrometre beyond the grid on
\* one axis only, and has raised
C6_Witness ==
    /\ pc = "returned"
    /\ call.op = "getA"
    /\ Outside(call.pos)
    /\ ~RLt(call.pos[1], RInt(self.xmin)) /\ ~RLt(RInt(self.xmax), call.pos[1])
    /\ err = OutOfBounds

\* coilvec lists every coil of 0 .. nc-1 exactly once
IsBijection(coilvec, nc) ==
    /\ Len(coilvec) = nc
    /\ \A k \in 0 .. nc - 1 : Cardinality({j \in 1 .. nc : coilvec[j] = k}) = 1

\* the order that undoes the bijection coilvec
Inverse(coilvec) ==
    [k \in 1 .. Len(coilvec) |->
        (CHOOSE j \in 1 .. Len(coilvec) : coilvec[j] = k - 1) - 1]

\* the step is a call permutate_coils(coilvec') on an object between calls
PermutateStep == pc = "ready" /\ call'.op = "permutate_coils"

\* the position p lies in [xmin,xmax]x[ymin,ymax]x[zmin,zmax] of the object s
Inside(s, p) ==
    /\ RLe(RInt(s.xmin), p[1]) /\ RLe(p[1], RInt(s.xmax))
    /\ RLe(RInt(s.ymin), p[2]) /\ RLe(p[2], RInt(s.ymax))
    /\ RLe(RInt(s.zmin), p[3]) /\ RLe(p[3], RInt(s.zmax))

\* the grid of the object s
GridOf(s) == <<s.xcoords, s.ycoords, s.zcoords>>

\* the (3,Ncoils) matrix that linear interpolation of the tensor B gives at p
InterpolationOf(s, B, p) == Interpolate(RegularGridInterpolator(GridOf(s), B), p)

\* C1: in every state reached by construction and any sequence of
\* permutate_coils calls the four interpolators are bound to the current
\* tensors: getBact(p) interpolates the current Bs, and getDerMatrices(p)
\* interpolates the gradient of the current Bs along x, y and z.
C1_InterpolatorsCurrent ==
    Built =>
        /\ self.BactInterpolator.values = self.Bs
        /\ self.BxInterpolator.values = self.Bx
        /\ self.ByInterpolator.values = self.By
        /\ self.BzInterpolator.values = self.Bz
        /\ \A p \in {q \in Positions(self) : Inside(self, q)} :
              /\ getBact(self, p, "tuple").val.data = InterpolationOf(self, self.Bs, p)
              /\ getDerMatrices(self, p, "tuple").val =
                    <<Shaped(InterpolationOf(self, ComputeBx(self.Bs, self.deltax), p),
                             self.Ncoils, "tuple"),
                      Shaped(InterpolationOf(self, ComputeBy(self.Bs, self.deltay), p),
                             self.Ncoils, "tuple"),
                      Shaped(InterpolationOf(self, ComputeBz(self.Bs, self.deltaz), p),
                             self.Ncoils, "tuple")>>

\* C2: permutate_coils(coilvec) with coilvec not a bijection on
\* [0, Ncoils) raises, and Bs, Bx, By, Bz and the four interpolators are as
\* they were before the call.
C2_InvalidRejected ==
    [][(PermutateStep /\ ~IsBijection(call'.coilvec, self.Ncoils))
          => (err' # "none" /\ self' = self)]_vars

\* C3: for every Ncoils and every permutation coilvec of [0, Ncoils),
\* permutate_coils(coilvec) returns with
\* Bs[ix,iy,iz,c,k] = Bs_old[ix,iy,iz,c,coilvec[k]] for every k in
\* [0, Ncoils), every node and every component, the shape of Bs unchanged.
C3_Permuted ==
    [][(PermutateStep /\ IsBijection(call'.coilvec, self.Ncoils))
          => /\ err' = "none"
             /\ self'.Bs.shape = self.Bs.shape
             /\ \A i \in Indices(self.Bs.shape) :
                   Num(self'.Bs, i) =
                       Num(self.Bs, Moved(i, 5, call'.coilvec[i[5] + 1]))]_vars

\* C4: permutate_coils(P) followed by permutate_coils(P inverse), for a
\* permutation P of [0, Ncoils), leaves Bs, Bx, By, Bz and the results of
\* getBact and getDerMatrices at every position inside the grid as they
\* were before the two calls.
C4_InverseRestores ==
    [][(/\ PermutateStep
        /\ pre # NoPre
        /\ IsBijection(pre.coilvec, self.Ncoils)
        /\ call'.coilvec = Inverse(pre.coilvec))
          => /\ err' = "none"
             /\ self'.Bs = pre.self.Bs
             /\ self'.Bx = pre.self.Bx
             /\ self'.By = pre.self.By
             /\ self'.Bz = pre.self.Bz
             /\ \A p \in {q \in Positions(self) : Inside(self, q)} :
                   /\ getBact(self', p, "tuple") = getBact(pre.self, p, "tuple")
                   /\ getDerMatrices(self', p, "tuple")
                        = getDerMatrices(pre.self, p, "tuple")]_vars

\* sum over the components c of m[c] * M[c][k]
Contraction(m, M, k) ==
    RAdd(RAdd(RMul(m[1], M.data[0][k]), RMul(m[2], M.data[1][k])),
         RMul(m[3], M.data[2][k]))

\* C5: for a position inside the grid and a dipole moment m of length 3,
\* getA(pos, m) returns a (6,Ncoils) matrix whose first three rows are
\* getBact(pos) and whose rows 4, 5 and 6 are the contractions of m with
\* the component axis of the three matrices of getDerMatrices(pos), in the
\* order x, y, z.
C5_ExtendedMatrix ==
    (pc = "returned" /\ call.op = "getA" /\ Inside(self, call.pos)) =>
        /\ err = "none"
        /\ ret.shape = <<6, self.Ncoils>>
        /\ \A r \in 0 .. 2 : \A k \in 0 .. self.Ncoils - 1 :
              /\ ret.data[r][k] = InterpolationOf(self, self.Bs, call.pos)[r][k]
              /\ ret.data[3 + r][k] =
                    Contraction(call.m,
                                InterpolatorCall(<<self.BxInterpolator, self.ByInterpolator,
                                                   self.BzInterpolator>>[r + 1],
                                                 call.pos, "tuple").val, k)

\* the values of component c and coil k are slope * coordinate along d at
\* every node
LinearAlong(d, c, k, slope) ==
    \A i \in Indices(self.Bs.shape) :
        (i[4] = c /\ i[5] = k) =>
            REq(At(self.Bs, i), RInt(slope * GridOf(self)[d][i[d] + 1]))

\* the slopes of the linear fields
Slopes == 1 .. MaxSlope * MaxNcoils

\* C7: on a grid with 3 nodes per axis, where a component of a coil's field
\* is linear in a coordinate (B = k*x), the derivative tensor along that
\* direction is k at every node: the interior one and both boundary ones.
C7_LinearGradient ==
    (Built /\ \A a \in 1 .. 3 : self.Bs.shape[a] = 3) =>
        \A d \in 1 .. 3, c \in 0 .. NComp - 1, k \in 0 .. self.Ncoils - 1 :
            \A slope \in Slopes :
                LinearAlong(d, c, k, slope) =>
                    \A i \in Indices(self.Bs.shape) :
                        (i[4] = c /\ i[5] = k) =>
                            REq(At(Der(self, d), i), RInt(slope))

=============================================================================
